---- MODULE Spec2Model ----
(***************************************************************************)
(* State-machine model of src/src/App.jsx: the course generation           *)
(* workflows (handleGenerateCourse, handleGenerateMCQs, handleGenerateLab), *)
(* the retry wrapper withRetry around callGeminiApi, the four onSnapshot    *)
(* subscriptions kept by the useEffect hooks, and the navigation handlers.  *)
(*                                                                         *)
(* One action is one run-to-completion step of the JavaScript event loop:  *)
(* an event handler, or the resumption of an async function after an       *)
(* awaited remote call settles, up to the next await.  A remote store call *)
(* takes effect at the moment it settles.  The effects of the useEffect    *)
(* hooks whose dependencies change are part of the action that changes     *)
(* them.  Authentication is past (isAuthReady, db and userId are set).     *)
(*                                                                         *)
(* A listener is delivered the current result of its query at any time     *)
(* after it is attached or after a write changes that result; a snapshot   *)
(* lists its documents in document-id order.  A listener whose error       *)
(* callback runs (ListenerError) delivers nothing further; the error       *)
(* callbacks occur in SpecFaults only.  Choosing the MCQs or the lab tab   *)
(* is part of the click on that tab's generate button.  A document's      *)
(* texts are named by the item's position in the generation result, and   *)
(* createdAt by the number of the handler invocation that wrote the       *)
(* document.                                                              *)
(***************************************************************************)
EXTENDS Integers, Sequences, FiniteSets, TLC

\* ---------------------------------------------------------------- bounds
\* Longest module array the generation service returns.
MaxModules == 2
\* Longest topic array the generation service returns.
MaxTopics == 2
\* Longest MCQ array the generation service returns.
MaxMcqs == 2
\* Asset workflow invocations in one behaviour of SpecAssets.
MaxRuns == 2
\* Longest array the generation service returns in one behaviour of Spec.
MaxItems == 1

\* ------------------------------------------------------ program constants
\* withRetry's default maxRetries and its first delay.
maxRetries == 5
initialDelay == 1000

\* JavaScript's null for an object-valued state, and the id of no document.
\* The options of an MCQ.
OptionCount == 4

None == [id |-> 0]
NoId == None.id

\* The values the course-name input is given.
CourseNames == {"", " ", "Java"}

\* String.prototype.trim, on the names above.
Trim(s) == IF s = " " THEN "" ELSE s

\* ------------------------------------------------------- document shapes
\* The fields handleGenerateCourse gives a course, a module and a topic, and
\* the fields the two asset handlers give an mcq and a lab.  The text of a
\* generated item (title, objective, content, question, options, steps) is
\* named by the item's position in the generation result; createdAt, the
\* clock's reading, is the number of the workflow invocation that wrote the
\* document (0: an earlier session).
CourseDoc(id, name, now) ==
    [id |-> id, title |-> name, status |-> "draft", userId |-> "u",
     createdAt |-> now]

\* A module loop that writes the loop index as the order.
ModuleDocZeroBased(id, courseId, i, now) ==
    [id |-> id, courseId |-> courseId, title |-> i + 1, order |-> i,
     createdAt |-> now]

ModuleDoc(id, courseId, i, now) ==
    [id |-> id, courseId |-> courseId, title |-> i + 1, order |-> i + 1,
     createdAt |-> now]

\* A topic loop that writes the loop index as the order.
TopicDocZeroBased(id, moduleId, j, now) ==
    [id |-> id, moduleId |-> moduleId, title |-> j + 1, order |-> j,
     createdAt |-> now]

TopicDoc(id, moduleId, j, now) ==
    [id |-> id, moduleId |-> moduleId, title |-> j + 1, order |-> j + 1,
     createdAt |-> now]

\* The values JSON.parse can leave in a field of an item: the number n/d in
\* lowest terms, a string, a boolean, null, and undefined for a field the
\* item does not have.  NaN is the number with d = 0.
Num(n, d) == [type |-> "number", n |-> n, d |-> d, s |-> ""]

NaN == [type |-> "number", n |-> 0, d |-> 0, s |-> ""]

Str(s) == [type |-> "string", n |-> 0, d |-> 0, s |-> s]

Bool(b) == [type |-> "boolean", n |-> IF b THEN 1 ELSE 0, d |-> 1, s |-> ""]

JsNull == [type |-> "null", n |-> 0, d |-> 0, s |-> ""]

JsUndefined == [type |-> "undefined", n |-> 0, d |-> 0, s |-> ""]

\* Number(string): the empty string is 0, a numeral its number, any other
\* text NaN.
StringToNumber(s) ==
    CASE s = "" -> Num(0, 1)
      [] s = "2" -> Num(2, 1)
      [] s = "2.5" -> Num(5, 2)
      [] OTHER -> NaN

\* Number(v)
ToNumber(v) ==
    CASE v.type = "number" -> v
      [] v.type = "string" -> StringToNumber(v.s)
      [] v.type = "boolean" -> Num(v.n, 1)
      [] v.type = "null" -> Num(0, 1)
      [] v.type = "undefined" -> NaN

\* x || 0 on a number: 0 and NaN are falsy.
OrZero(x) == IF x = NaN \/ x.n = 0 THEN Num(0, 1) ELSE x

\* Number(mcq.correct_answer_index) || 0
CorrectIndex(v) == OrZero(ToNumber(v))

McqDoc(id, topicId, k, answer, now) ==
    [id |-> id, topicId |-> topicId, type |-> "mcq", question |-> k,
     correctIndex |-> CorrectIndex(answer), createdAt |-> now]

LabDoc(id, topicId, now) ==
    [id |-> id, topicId |-> topicId, type |-> "lab", createdAt |-> now]

\* ------------------------------------------------------------- sequences
\* The two ways the store's document-id order can relate to the order of
\* insertion: auto-generated ids are random strings.
DocOrders == {"asc", "desc"}

RECURSIVE SetToSeq(_, _)
\* The documents of a query result in document-id order.
SetToSeq(S, o) ==
    IF S = {} THEN <<>>
    ELSE LET d == CHOOSE x \in S :
                     \A y \in S : IF o = "asc" THEN x.id <= y.id
                                  ELSE x.id >= y.id
         IN <<d>> \o SetToSeq(S \ {d}, o)

Range(s) == {s[k] : k \in 1..Len(s)}

RECURSIVE Insert(_, _)
\* x placed after every element whose order is not larger (a stable sort).
Insert(s, x) ==
    IF s = <<>> THEN <<x>>
    ELSE IF x.order - Head(s).order < 0 THEN <<x>> \o s
    ELSE <<Head(s)>> \o Insert(Tail(s), x)

RECURSIVE SortByOrder(_)
\* A callback that keeps the snapshot's order.
Unsorted(s) == s

\* list.sort((a, b) => a.order - b.order)
SortByOrder(s) ==
    IF s = <<>> THEN <<>>
    ELSE Insert(SortByOrder(SubSeq(s, 1, Len(s) - 1)), s[Len(s)])

VARIABLES
    \* the document store: the four collections of the caller
    coursesCollection, modulesCollection, topicsCollection, assetsCollection,
    nextId,          \* the next auto-generated document id
    idOrder,         \* how document-id order relates to insertion order
    \* React state of App
    currentView, courseName, course, modules, isLoading, activeModule,
    topics, activeTopic, selectedTab, mcqs, lab, error,
    amInList,        \* activeModule is (the same object as) an element of modules
    listeners,       \* the onSnapshot listeners, one per query
    \* the workflow in flight: the handler's closure and its position
    wf,
    \* withRetry's loop variables and what it was observed to do
    rt, calls, sleeps,
    \* the handler invocations begun, those not yet ended, and how the ended
    \* ones went
    runs, inFlight, history

store == <<coursesCollection, modulesCollection, topicsCollection,
           assetsCollection, nextId, idOrder>>
nav == <<currentView, course, modules, activeModule, topics, activeTopic,
         mcqs, lab, amInList>>
retry == <<rt, calls, sleeps>>
vars == <<store, nav, courseName, selectedTab, isLoading, error, listeners,
          wf, retry, runs, inFlight, history>>

\* ------------------------------------------------------------- listeners
ListenerNames == {"course", "modules", "topics", "mcq", "lab"}

Off == [active |-> FALSE, key |-> NoId, pending |-> FALSE]

\* onSnapshot(query, ...): the listener is attached and its initial snapshot
\* is on its way.
Subscribed(key) == [active |-> TRUE, key |-> key, pending |-> TRUE]

\* The documents a listener's query matches in collections C, M, T, A.
QueryResult(name, key, C, M, T, A) ==
    CASE name = "course" -> C
      [] name = "modules" -> {m \in M : m.courseId = key}
      [] name = "topics" -> {t \in T : t.moduleId = key}
      [] name = "mcq" -> {a \in A : a.topicId = key /\ a.type = "mcq"}
      [] name = "lab" -> {a \in A : a.topicId = key /\ a.type = "lab"}

\* A write that changes a query's result makes the store send its listener a
\* new snapshot.
MarkPending(ls, C, M, T, A) ==
    [n \in ListenerNames |->
        IF ls[n].active
           /\ QueryResult(n, ls[n].key, C, M, T, A)
              # QueryResult(n, ls[n].key, coursesCollection,
                            modulesCollection, topicsCollection,
                            assetsCollection)
        THEN [ls[n] EXCEPT !.pending = TRUE]
        ELSE ls[n]]

Snapshot(name) ==
    SetToSeq(QueryResult(name, listeners[name].key, coursesCollection,
                         modulesCollection, topicsCollection,
                         assetsCollection), idOrder)

Deliverable(name) == listeners[name].active /\ listeners[name].pending

\* A modules effect that never subscribes.
ModulesListenerOff(c) == Off

\* The modules effect: subscribes while a course is known.
ModulesListener(c) == IF c # None THEN Subscribed(c.id) ELSE Off

\* The topics effect: subscribes while an active module is selected.
TopicsListener(m) == IF m # None THEN Subscribed(m.id) ELSE Off

\* An assets effect whose cleanup leaves the listener attached.
AssetsListenerLeaky(t, attached) ==
    IF t # None THEN Subscribed(t.id) ELSE attached

\* The assets effect: its cleanup detaches the listener of the previous
\* topic, and it subscribes again while an active topic is selected.
AssetsListener(t, attached) == IF t # None THEN Subscribed(t.id) ELSE Off

\* ------------------------------------------------------------------ init
\* No parsed value (JavaScript's undefined, and null).
Undefined == [kind |-> "null", length |-> 0, problemStatement |-> FALSE]

Idle ==
    [kind |-> "none", pc |-> "idle", courseName |-> "", activeTopic |-> None,
     mcqs |-> <<>>, lab |-> None, result |-> Undefined, data |-> Undefined,
     i |-> 0, j |-> 0,
     newCourseId |-> NoId, newModuleId |-> NoId, docs |-> <<>>,
     topicsData |-> Undefined, topicLens |-> {}]

RtIdle ==
    [i |-> 0, delay |-> 0, phase |-> "idle", caught |-> "none",
     schema |-> "none"]

\* The store of a caller who has never generated a course.
EmptyStore ==
    /\ coursesCollection = {}
    /\ modulesCollection = {}
    /\ topicsCollection = {}
    /\ assetsCollection = {}
    /\ nextId = 1

\* The store an earlier session left: the course, the two modules and the
\* two topics (of the first module) of a generate-course, and the mcq and
\* the lab of a generate-assessment and a generate-lab on the first topic.
SeededStore ==
    /\ coursesCollection = {CourseDoc(1, "Java", 0)}
    /\ modulesCollection = {ModuleDoc(2, 1, 0, 0), ModuleDoc(5, 1, 1, 0)}
    /\ topicsCollection = {TopicDoc(3, 2, 0, 0), TopicDoc(4, 2, 1, 0)}
    /\ assetsCollection = {McqDoc(6, 3, 1, Num(1, 1), 0), LabDoc(7, 3, 0)}
    /\ nextId = 8

\* The useState initial values, and the course listener the first effect
\* attaches once authentication is ready.
InitApp ==
    /\ idOrder \in DocOrders
    /\ currentView = "home"
    /\ courseName = "Java"
    /\ course = None
    /\ modules = <<>>
    /\ isLoading = FALSE
    /\ activeModule = None
    /\ topics = <<>>
    /\ activeTopic = None
    /\ selectedTab = "content"
    /\ mcqs = <<>>
    /\ lab = None
    /\ error = "null"
    /\ amInList = FALSE
    /\ listeners = [n \in ListenerNames |->
                        IF n = "course" THEN Subscribed(NoId) ELSE Off]
    /\ wf = Idle
    /\ rt = RtIdle
    /\ calls = 0
    /\ sleeps = <<>>
    /\ runs = 0
    /\ inFlight = 0
    /\ history = <<>>

Init == (EmptyStore \/ SeededStore) /\ InitApp

\* A session on the store an earlier session left.
InitSeeded == SeededStore /\ InitApp

\* ------------------------------------------------------------ view routing
HomeViewShown == course = None /\ ~isLoading

\* ModulesView reads course.title: it renders only while a course is known.
ModulesViewShown ==
    /\ ~HomeViewShown
    /\ currentView = "modules" \/ (course # None /\ activeModule = None)
    /\ course # None

ModuleDetailViewShown ==
    /\ ~HomeViewShown
    /\ ~(currentView = "modules" \/ (course # None /\ activeModule = None))
    /\ currentView = "module" /\ activeModule # None /\ activeTopic = None

TopicDetailViewShown ==
    /\ ~HomeViewShown
    /\ ~(currentView = "modules" \/ (course # None /\ activeModule = None))
    /\ ~(currentView = "module" /\ activeModule # None /\ activeTopic = None)
    /\ currentView = "topic" /\ activeTopic # None

\* ------------------------------------------------------- subscriptions
\* A callback that surfaces the last document of the snapshot.
Last(docs) == docs[Len(docs)]

\* snapshot.docs[0]
First(docs) == docs[1]

\* NotifyCourse with a callback that also drops the active module.
NotifyCourseDropsModule ==
    /\ Deliverable("course")
    /\ \E docs \in {Snapshot("course")} :
       LET newCourse == IF docs # <<>> THEN First(docs) ELSE None
           newView == IF docs # <<>> THEN "modules" ELSE "home"
       IN /\ course' = newCourse
          /\ currentView' = newView
          /\ activeModule' = None
          /\ listeners' =
                [listeners EXCEPT
                    !["course"].pending = FALSE,
                    !["modules"] = ModulesListener(newCourse)]
    /\ UNCHANGED <<store, modules, topics, activeTopic, mcqs,
                   lab, amInList, courseName, selectedTab, isLoading, error, wf, retry,
                   runs, inFlight, history>>

\* The course listener's callback.  Every non-empty snapshot sets a new
\* course object, so the modules effect runs again and re-subscribes.
NotifyCourse ==
    /\ Deliverable("course")
    /\ \E docs \in {Snapshot("course")} :
       LET newCourse == IF docs # <<>> THEN First(docs) ELSE None
           newView == IF docs # <<>> THEN "modules" ELSE "home"
           rerun == docs # <<>> \/ course # None \/ newView # currentView
       IN /\ course' = newCourse
          /\ currentView' = newView
          /\ listeners' =
                [listeners EXCEPT
                    !["course"].pending = FALSE,
                    !["modules"] = IF rerun THEN ModulesListener(newCourse)
                                   ELSE @]
    /\ UNCHANGED <<store, modules, activeModule, topics, activeTopic, mcqs,
                   lab, amInList, courseName, selectedTab, isLoading, error, wf, retry,
                   runs, inFlight, history>>

\* moduleList.find(m => m.id === activeModule.id), or None.
FindModule(moduleList, id) ==
    IF \E k \in 1..Len(moduleList) : moduleList[k].id = id
    THEN moduleList[CHOOSE k \in 1..Len(moduleList) :
                        /\ moduleList[k].id = id
                        /\ \A h \in 1..(k - 1) : moduleList[h].id # id]
    ELSE None

\* A callback that sets the active module to whatever find returned.
ResolvedAlways(updatedActive) == TRUE

\* A callback that never sets the active module.
ResolvedNever(updatedActive) == FALSE

\* if (updatedActive)
Resolved(updatedActive) == updatedActive # None

\* The modules listener's callback.  A re-resolved active module is a new
\* object, so the modules and the topics effects run again.
NotifyModules ==
    /\ Deliverable("modules")
    /\ \E moduleList \in {Snapshot("modules")} :
       LET resolve == currentView \in {"module", "topic"}
                      /\ activeModule # None
           updatedActive == IF resolve
                            THEN FindModule(moduleList, activeModule.id)
                            ELSE None
       IN /\ modules' = SortByOrder(moduleList)
          /\ IF resolve /\ Resolved(updatedActive)
             THEN /\ activeModule' = updatedActive
                  /\ amInList' = TRUE
                  /\ listeners' =
                        [listeners EXCEPT
                            !["modules"] = ModulesListener(course),
                            !["topics"] = TopicsListener(updatedActive)]
             ELSE /\ activeModule' = activeModule
                  /\ amInList' = FALSE
                  /\ listeners' =
                        [listeners EXCEPT !["modules"].pending = FALSE]
    /\ UNCHANGED <<store, currentView, course, topics, activeTopic, mcqs, lab,
                   courseName, selectedTab, isLoading, error, wf, retry, runs, inFlight, history>>

NotifyTopics ==
    /\ Deliverable("topics")
    /\ topics' = SortByOrder(Snapshot("topics"))
    /\ listeners' = [listeners EXCEPT !["topics"].pending = FALSE]
    /\ UNCHANGED <<store, currentView, course, modules, activeModule,
                   activeTopic, mcqs, lab, amInList, courseName, selectedTab, isLoading,
                   error, wf, retry, runs, inFlight, history>>

NotifyMcqs ==
    /\ Deliverable("mcq")
    /\ mcqs' = Snapshot("mcq")
    /\ listeners' = [listeners EXCEPT !["mcq"].pending = FALSE]
    /\ UNCHANGED <<store, currentView, course, modules, activeModule, topics,
                   activeTopic, lab, amInList, courseName, selectedTab, isLoading, error,
                   wf, retry, runs, inFlight, history>>

\* A lab callback that also deletes from the store the labs it does not
\* show.
NotifyLabPruning ==
    /\ Deliverable("lab")
    /\ LET docs == Snapshot("lab")
       IN /\ lab' = IF docs # <<>> THEN First(docs) ELSE None
          /\ assetsCollection' =
                {a \in assetsCollection :
                    a \in Range(docs) => a = First(docs)}
    /\ listeners' = [listeners EXCEPT !["lab"].pending = FALSE]
    /\ UNCHANGED <<coursesCollection, modulesCollection, topicsCollection,
                   nextId, idOrder, currentView, course, modules,
                   activeModule, topics, activeTopic, mcqs, amInList,
                   courseName, selectedTab, isLoading, error, wf, retry, runs,
                   inFlight, history>>

NotifyLab ==
    /\ Deliverable("lab")
    /\ LET docs == Snapshot("lab")
       IN lab' = IF docs # <<>> THEN First(docs) ELSE None
    /\ listeners' = [listeners EXCEPT !["lab"].pending = FALSE]
    /\ UNCHANGED <<store, currentView, course, modules, activeModule, topics,
                   activeTopic, mcqs, amInList, courseName, selectedTab, isLoading, error,
                   wf, retry, runs, inFlight, history>>

\* An error that takes every listener down with it.
ListenerErrorDetachesAll(name) ==
    /\ listeners[name].active
    /\ listeners' = [n \in ListenerNames |-> Off]
    /\ error' = IF name = "course" THEN "Failed to load course data."
                ELSE error
    /\ UNCHANGED <<store, nav, courseName, selectedTab, isLoading, wf, retry,
                   runs, inFlight, history>>

\* The error callback of a listener: the store has ended the listener, which
\* gets no further snapshot.  The callbacks log; the course listener's also
\* sets the error.
ListenerError(name) ==
    /\ listeners[name].active
    /\ listeners' = [listeners EXCEPT ![name] = Off]
    /\ error' = IF name = "course" THEN "Failed to load course data."
                ELSE error
    /\ UNCHANGED <<store, nav, courseName, selectedTab, isLoading, wf, retry,
                   runs, inFlight, history>>

\* ------------------------------------------------------------ navigation
handleCourseNameChange(value) ==
    /\ HomeViewShown
    /\ value # courseName
    /\ courseName' = value
    /\ UNCHANGED <<store, nav, selectedTab, isLoading, error, listeners, wf,
                   retry, runs, inFlight, history>>

\* handleViewModule(moduleData): from a card of ModulesView, or from the
\* back button of TopicDetailView (which passes activeModule itself).
handleViewModule(moduleData, fromList) ==
    /\ IF fromList
       THEN ModulesViewShown /\ moduleData \in Range(modules)
       ELSE TopicDetailViewShown /\ moduleData = activeModule
    /\ LET same == IF fromList
                   THEN amInList /\ activeModule.id = moduleData.id
                   ELSE TRUE
           assetsRerun == activeTopic # None
       IN /\ activeModule' = moduleData
          /\ amInList' = IF fromList THEN TRUE ELSE amInList
          /\ currentView' = "module"
          /\ activeTopic' = None
          /\ topics' = <<>>
          /\ mcqs' = IF assetsRerun THEN <<>> ELSE mcqs
          /\ lab' = IF assetsRerun THEN None ELSE lab
          /\ selectedTab' = "content"
          /\ listeners' =
                [listeners EXCEPT
                    !["modules"] = IF currentView # "module" \/ ~same
                                   THEN ModulesListener(course) ELSE @,
                    !["topics"] = IF ~same THEN TopicsListener(moduleData)
                                  ELSE @,
                    !["mcq"] = IF assetsRerun THEN AssetsListener(None, @)
                               ELSE @,
                    !["lab"] = IF assetsRerun THEN AssetsListener(None, @)
                               ELSE @]
    /\ UNCHANGED <<store, course, modules, courseName, isLoading, error, wf,
                   retry, runs, inFlight, history>>

handleViewModulesList ==
    /\ ModuleDetailViewShown
    /\ currentView' = "modules"
    /\ activeModule' = None
    /\ activeTopic' = None
    /\ amInList' = FALSE
    /\ listeners' = [listeners EXCEPT
                        !["modules"] = ModulesListener(course),
                        !["topics"] = Off]
    /\ UNCHANGED <<store, course, modules, topics, mcqs, lab, courseName,
                   selectedTab, isLoading, error, wf, retry, runs, inFlight, history>>

handleViewTopic(topicData) ==
    /\ ModuleDetailViewShown
    /\ topicData \in Range(topics)
    /\ activeTopic' = topicData
    /\ currentView' = "topic"
    /\ selectedTab' = "content"
    /\ listeners' = [listeners EXCEPT
                        !["modules"] = ModulesListener(course),
                        !["mcq"] = AssetsListener(topicData, @),
                        !["lab"] = AssetsListener(topicData, @)]
    /\ UNCHANGED <<store, course, modules, activeModule, topics, mcqs, lab,
                   amInList, courseName, isLoading, error, wf, retry, runs,
                   inFlight, history>>

\* ------------------------------------------------- generation service
\* What JSON.parse(rawText) gives: an array of n items, an object with or
\* without a problemStatement, or null.
ArrayOf(n) == [kind |-> "array", length |-> n, problemStatement |-> FALSE]
ObjectWith(ps) == [kind |-> "object", length |-> 0, problemStatement |-> ps]
JsonNull == Undefined

\* The parsed values the service answers each prompt with.
Responses(pc) ==
    CASE pc = "genModules" ->
            {ArrayOf(n) : n \in 0..MaxModules} \cup {ObjectWith(FALSE)}
      [] pc = "genTopics" ->
            {ArrayOf(n) : n \in 0..MaxTopics} \cup {ObjectWith(FALSE)}
      [] pc = "genMcqs" ->
            {ArrayOf(n) : n \in 0..MaxMcqs} \cup {ObjectWith(FALSE)}
      [] pc = "genLab" -> {ObjectWith(TRUE), ObjectWith(FALSE), JsonNull}
      [] OTHER -> {}

\* The system prompts, as the words that bear on the schema: every word of
\* the marker wherever a prompt has it, and the closing sentence.
ModulesPrompt ==
    <<"Respond", "only", "with", "a", "JSON", "array", "object",
      "containing", "title", "and", "objective", ".">>

TopicsPrompt ==
    <<"Respond", "only", "with", "a", "JSON", "array", "object", ".">>

McqsPrompt ==
    <<"Respond", "only", "with", "a", "JSON", "array", "object",
      "containing", "question", "options", "and", "correct_answer_index",
      ".">>

LabPrompt ==
    <<"The", "output", "should", "be", "a", "single", "JSON", "object",
      "containing", "three", "fields", ".",
      "Respond", "only", "with", "a", "single", "JSON", "object", ".">>

\* The system prompt of the request a workflow makes at pc.
SystemPrompt(pc) ==
    CASE pc = "genModules" -> ModulesPrompt
      [] pc = "genTopics" -> TopicsPrompt
      [] pc = "genMcqs" -> McqsPrompt
      [] pc = "genLab" -> LabPrompt
      [] OTHER -> <<>>

SingleObjectMarker == <<"single", "JSON", "object">>

\* text.includes(part): part occurs in text at some position.
Includes(text, part) ==
    \E k \in 0..(Len(text) - Len(part)) :
        \A h \in 1..Len(part) : text[k + h] = part[h]

\* A callGeminiApi that never replaces the array schema.
ResponseSchemaArrayOnly(systemPrompt, isJson) ==
    IF isJson THEN "ARRAY" ELSE "none"

\* payload.generationConfig.responseSchema.type, "none" without isJson.
ResponseSchema(systemPrompt, isJson) ==
    IF ~isJson THEN "none"
    ELSE IF Includes(systemPrompt, SingleObjectMarker) THEN "OBJECT"
    ELSE "ARRAY"

\* The errors callGeminiApi throws: a failed request (fetch rejects or the
\* status is not ok), a response without text, text that JSON.parse rejects.
ApiErrors ==
    {"API call failed", "AI did not return content.",
     "Received invalid JSON response from AI."}

\* The error a rejected Firestore call carries.
StoreError == "Firestore call failed"

\* A catch block that records its own text whatever was thrown.
MessageFallbackOnly(e, fallback) == fallback

\* e.message || fallback
Message(e, fallback) == IF e = "" THEN fallback ELSE e

Fallback(kind) ==
    CASE kind = "course" ->
            "An unexpected error occurred during course generation."
      [] kind = "mcq" ->
            "An unexpected error occurred during MCQ generation."
      [] kind = "lab" ->
            "An unexpected error occurred during lab generation."

\* A validation that accepts whatever the service returned.
AnyResult(x) == TRUE

\* Array.isArray(x) && x.length > 0
NonEmptyArray(x) == x.kind = "array" /\ x.length # 0

\* The two generation-output errors: a response without text, and text that
\* is not JSON.
OutputErrors ==
    {"AI did not return content.", "Received invalid JSON response from AI."}

\* --------------------------------------------------------------- withRetry
\* A loop whose last-attempt test is off by one.
RethrowOffByOne(i, e) == i = maxRetries

\* A loop that gives up at once on a generation-output error.
RethrowOutputErrors(i, e) == i = maxRetries - 1 \/ e \in OutputErrors

\* if (i === maxRetries - 1) throw error;
Rethrow(i, e) == i = maxRetries - 1

\* A linear backoff.
NextDelayLinear(delay) == delay + initialDelay

\* delay *= 2
NextDelay(delay) == delay * 2

\* A handler calls withRetry(() => callGeminiApi(...)): the loop starts and
\* the first request is issued.
StartRetry ==
    /\ rt' = [i |-> 0, delay |-> initialDelay, phase |-> "call",
              caught |-> "none",
              schema |-> ResponseSchema(SystemPrompt(wf'.pc), TRUE)]
    /\ calls' = 1
    /\ sleeps' = <<>>

\* The handler has taken withRetry's result.
ResetRetry ==
    /\ rt' = RtIdle
    /\ calls' = 0
    /\ sleeps' = <<>>

\* callGeminiApi returns a parsed value: withRetry returns it.
GenReturn(value) ==
    /\ rt.phase = "call"
    /\ value \in Responses(wf.pc)
    /\ rt' = [rt EXCEPT !.phase = "returned"]
    /\ wf' = [wf EXCEPT !.result = value]
    /\ UNCHANGED <<store, nav, courseName, selectedTab, isLoading, error,
                   listeners, calls, sleeps, runs, inFlight, history>>

\* callGeminiApi throws e: withRetry's catch rethrows it on the last attempt,
\* and otherwise warns and starts the sleep.
GenThrow(e) ==
    /\ rt.phase = "call"
    /\ IF Rethrow(rt.i, e)
       THEN /\ rt' = [rt EXCEPT !.phase = "thrown", !.caught = e]
            /\ sleeps' = sleeps
       ELSE /\ rt' = [rt EXCEPT !.phase = "sleep", !.caught = e]
            /\ sleeps' = Append(sleeps, rt.delay)
    /\ UNCHANGED <<store, nav, courseName, selectedTab, isLoading, error,
                   listeners, wf, calls, runs, inFlight, history>>

\* A loop that starts over after every sleep.
SleepDoneForever ==
    /\ rt.phase = "sleep"
    /\ rt' = [rt EXCEPT !.phase = "call", !.caught = "none"]
    /\ sleeps' = <<>>
    /\ UNCHANGED <<store, nav, courseName, selectedTab, isLoading, error,
                   listeners, wf, calls, runs, inFlight, history>>

\* The sleep's timer fires: the delay doubles and the loop goes on; past the
\* loop's bound withRetry returns undefined.
SleepDone ==
    /\ rt.phase = "sleep"
    /\ IF rt.i + 1 < maxRetries
       THEN /\ rt' = [i |-> rt.i + 1, delay |-> NextDelay(rt.delay),
                      phase |-> "call", caught |-> "none",
                      schema |-> ResponseSchema(SystemPrompt(wf.pc), TRUE)]
            /\ calls' = calls + 1
            /\ wf' = wf
       ELSE /\ rt' = [i |-> rt.i + 1, delay |-> NextDelay(rt.delay),
                      phase |-> "returned", caught |-> "none",
                      schema |-> rt.schema]
            /\ calls' = calls
            /\ wf' = [wf EXCEPT !.result = Undefined]
    /\ UNCHANGED <<store, nav, courseName, selectedTab, isLoading, error,
                   listeners, sleeps, runs, inFlight, history>>

\* ------------------------------------------------------ workflow frames
\* <button disabled={disabled || isLoading}>
ButtonEnabled(disabled) == ~(disabled \/ isLoading)

\* A handler that does not set the busy flag.
BeginNotBusy(w) ==
    /\ isLoading' = isLoading
    /\ error' = "null"
    /\ wf' = w
    /\ rt' = [i |-> 0, delay |-> initialDelay, phase |-> "call",
              caught |-> "none",
              schema |-> ResponseSchema(SystemPrompt(w.pc), TRUE)]
    /\ calls' = 1
    /\ sleeps' = <<>>
    /\ runs' = runs + 1
    /\ inFlight' = inFlight + 1
    /\ UNCHANGED <<store, nav, courseName, listeners, history>>

\* A handler that does not clear the error.
BeginKeepsError(w) ==
    /\ isLoading' = TRUE
    /\ error' = error
    /\ wf' = w
    /\ StartRetry
    /\ runs' = runs + 1
    /\ inFlight' = inFlight + 1
    /\ UNCHANGED <<store, nav, courseName, listeners, history>>

\* setIsLoading(true); setError(null); and the first generation request.
Begin(w) ==
    /\ isLoading' = TRUE
    /\ error' = "null"
    /\ wf' = w
    /\ StartRetry
    /\ runs' = runs + 1
    /\ inFlight' = inFlight + 1
    /\ UNCHANGED <<store, nav, courseName, listeners, history>>

\* The handler goes on to its next await.
Continue(w) ==
    /\ wf' = w
    /\ UNCHANGED <<isLoading, error, inFlight, history>>

\* The handler's catch and finally: thrown is the error caught, or "none"
\* when the try block ran to its end.
Finish(w, thrown) ==
    /\ isLoading' = FALSE
    /\ error' = IF thrown = "none" THEN error
                ELSE Message(thrown, Fallback(w.kind))
    /\ wf' = Idle
    /\ inFlight' = inFlight - 1
    /\ history' = Append(history,
                         [kind |-> w.kind, ok |-> thrown = "none",
                          run |-> runs,
                          topicId |-> w.activeTopic.id,
                          courseId |-> w.newCourseId,
                          length |-> w.data.length,
                          topicLens |-> w.topicLens])

\* The store after a write, and the snapshots the write sets off.
Write(C, M, T, A, n) ==
    /\ coursesCollection' = C
    /\ modulesCollection' = M
    /\ topicsCollection' = T
    /\ assetsCollection' = A
    /\ nextId' = n
    /\ idOrder' = idOrder
    /\ listeners' = MarkPending(listeners, C, M, T, A)

\* A delete that removes nothing.
WithoutNothing(S, id) == S

\* deleteDoc(ref): the collection without the document of that id.
Without(S, id) == {d \in S : d.id # id}

\* withRetry rejected: the handler's catch takes the error.
GenFailed ==
    /\ rt.phase = "thrown"
    /\ Finish(wf, rt.caught)
    /\ ResetRetry
    /\ UNCHANGED <<store, nav, courseName, selectedTab, listeners, runs>>

StorePcs ==
    {"getDocs", "deleteCourse", "addCourse", "addModule", "addTopic",
     "deleteMcq", "addMcq", "deleteLab", "addLab"}

\* A catch that undoes the course and the modules the handler has written.
StoreFailedRollback ==
    /\ wf.pc \in StorePcs
    /\ Finish(wf, StoreError)
    /\ Write(Without(coursesCollection, wf.newCourseId),
             {m \in modulesCollection : m.courseId # wf.newCourseId},
             topicsCollection, assetsCollection, nextId)
    /\ UNCHANGED <<nav, courseName, selectedTab, retry, runs>>

\* An awaited getDocs, deleteDoc or addDoc rejects.
StoreFailed ==
    /\ wf.pc \in StorePcs
    /\ Finish(wf, StoreError)
    /\ UNCHANGED <<store, nav, courseName, selectedTab, listeners, retry,
                   runs>>

\* ---------------------------------------------------- generate-course
\* A handler that starts whatever the course name is.
NoPrecondition(name) == TRUE

\* courseName && courseName.trim(): the handler returns at once without.
CoursePrecondition(name) == name # "" /\ Trim(name) # ""

\* activeTopic: the asset handlers return at once without.
TopicPrecondition(t) == t # None

handleGenerateCourse ==
    /\ \/ HomeViewShown /\ ButtonEnabled(Trim(courseName) = "" \/ isLoading)
       \/ ModulesViewShown /\ ButtonEnabled(isLoading)
    /\ IF ~CoursePrecondition(courseName)
       THEN UNCHANGED vars
       ELSE /\ Begin([Idle EXCEPT !.kind = "course", !.pc = "genModules",
                                  !.courseName = courseName])
            /\ UNCHANGED selectedTab

\* The module request returned: validate, then read the caller's courses.
ResumeGenModules ==
    /\ wf.pc = "genModules"
    /\ rt.phase = "returned"
    /\ LET w == [wf EXCEPT !.data = wf.result]
       IN IF ~NonEmptyArray(w.data)
          THEN Finish(w, "AI failed to generate module structure.")
          ELSE Continue([w EXCEPT !.pc = "getDocs"])
    /\ ResetRetry
    /\ UNCHANGED <<store, nav, courseName, selectedTab, listeners, runs>>

\* getDocs(query(coursesCollection)) returned: the delete loop starts.
GetDocsDone ==
    /\ wf.pc = "getDocs"
    /\ LET docs == SetToSeq(coursesCollection, idOrder)
       IN Continue([wf EXCEPT !.docs = docs,
                              !.pc = IF docs = <<>> THEN "addCourse"
                                     ELSE "deleteCourse"])
    /\ UNCHANGED <<store, nav, courseName, selectedTab, listeners, retry,
                   runs>>

\* A delete that takes the course's modules with it.
DeleteCourseCascading ==
    /\ wf.pc = "deleteCourse"
    /\ Write(Without(coursesCollection, Head(wf.docs).id),
             {m \in modulesCollection : m.courseId # Head(wf.docs).id},
             topicsCollection, assetsCollection, nextId)
    /\ Continue([wf EXCEPT !.docs = Tail(wf.docs),
                           !.pc = IF Tail(wf.docs) = <<>> THEN "addCourse"
                                  ELSE "deleteCourse"])
    /\ UNCHANGED <<nav, courseName, selectedTab, retry, runs>>

\* await deleteDoc(doc.ref) of the course delete loop returned.
DeleteCourseDone ==
    /\ wf.pc = "deleteCourse"
    /\ Write(Without(coursesCollection, Head(wf.docs).id), modulesCollection,
             topicsCollection, assetsCollection, nextId)
    /\ Continue([wf EXCEPT !.docs = Tail(wf.docs),
                           !.pc = IF Tail(wf.docs) = <<>> THEN "addCourse"
                                  ELSE "deleteCourse"])
    /\ UNCHANGED <<nav, courseName, selectedTab, retry, runs>>

AddCourseDone ==
    /\ wf.pc = "addCourse"
    /\ Write(coursesCollection \cup {CourseDoc(nextId, wf.courseName, runs)},
             modulesCollection, topicsCollection, assetsCollection,
             nextId + 1)
    /\ Continue([wf EXCEPT !.newCourseId = nextId, !.i = 0,
                           !.pc = "addModule"])
    /\ UNCHANGED <<nav, courseName, selectedTab, retry, runs>>

\* The module's document is written: its topics are requested.
AddModuleDone ==
    /\ wf.pc = "addModule"
    /\ Write(coursesCollection,
             modulesCollection
                \cup {ModuleDoc(nextId, wf.newCourseId, wf.i, runs)},
             topicsCollection, assetsCollection, nextId + 1)
    /\ Continue([wf EXCEPT !.newModuleId = nextId, !.pc = "genTopics"])
    /\ StartRetry
    /\ UNCHANGED <<nav, courseName, selectedTab, runs>>

\* The end of one iteration of the module loop: the next module, or the end
\* of the try block.
AfterModule(w) ==
    IF w.i + 1 < w.data.length
    THEN Continue([w EXCEPT !.i = w.i + 1, !.pc = "addModule"])
    ELSE Finish(w, "none")

ResumeGenTopics ==
    /\ wf.pc = "genTopics"
    /\ rt.phase = "returned"
    /\ LET isArray == wf.result.kind = "array"
           w == [wf EXCEPT
                    !.topicsData = wf.result,
                    !.j = 0,
                    !.topicLens =
                        IF isArray
                        THEN @ \cup {[moduleId |-> wf.newModuleId,
                                      length |-> wf.result.length]}
                        ELSE @]
       IN IF isArray /\ 0 < wf.result.length
          THEN Continue([w EXCEPT !.pc = "addTopic"])
          ELSE AfterModule(w)
    /\ ResetRetry
    /\ UNCHANGED <<store, nav, courseName, selectedTab, listeners, runs>>

\* A topic loop that leaves for the next module after its first insert.
AddTopicDoneOnce ==
    /\ wf.pc = "addTopic"
    /\ Write(coursesCollection, modulesCollection,
             topicsCollection
                \cup {TopicDoc(nextId, wf.newModuleId, wf.j, runs)},
             assetsCollection, nextId + 1)
    /\ AfterModule([wf EXCEPT !.j = wf.j + 1])
    /\ UNCHANGED <<nav, courseName, selectedTab, retry, runs>>

\* await addDoc(topicsCollection, ...) returned.
AddTopicDone ==
    /\ wf.pc = "addTopic"
    /\ Write(coursesCollection, modulesCollection,
             topicsCollection
                \cup {TopicDoc(nextId, wf.newModuleId, wf.j, runs)},
             assetsCollection, nextId + 1)
    /\ LET w == [wf EXCEPT !.j = wf.j + 1]
       IN IF w.j < w.topicsData.length
          THEN Continue(w)
          ELSE AfterModule(w)
    /\ UNCHANGED <<nav, courseName, selectedTab, retry, runs>>

\* ------------------------------------------------- generate-assessment
\* The button is on the MCQs tab of TopicDetailView.
handleGenerateMCQs ==
    /\ TopicDetailViewShown
    /\ ButtonEnabled(isLoading)
    /\ TopicPrecondition(activeTopic)
    /\ selectedTab' = "mcqs"
    /\ Begin([Idle EXCEPT !.kind = "mcq", !.pc = "genMcqs",
                          !.activeTopic = activeTopic, !.mcqs = mcqs])

\* The MCQ request returned: validate, then delete the MCQs of the mcqs
\* state the handler closed over.
ResumeGenMcqs ==
    /\ wf.pc = "genMcqs"
    /\ rt.phase = "returned"
    /\ LET w == [wf EXCEPT !.data = wf.result, !.docs = wf.mcqs, !.j = 0]
       IN IF ~NonEmptyArray(w.data)
          THEN Finish(w, "AI failed to generate MCQs.")
          ELSE Continue([w EXCEPT !.pc = IF w.docs = <<>> THEN "addMcq"
                                         ELSE "deleteMcq"])
    /\ ResetRetry
    /\ UNCHANGED <<store, nav, courseName, selectedTab, listeners, runs>>

DeleteMcqDone ==
    /\ wf.pc = "deleteMcq"
    /\ Write(coursesCollection, modulesCollection, topicsCollection,
             Without(assetsCollection, Head(wf.docs).id), nextId)
    /\ Continue([wf EXCEPT !.docs = Tail(wf.docs),
                           !.pc = IF Tail(wf.docs) = <<>> THEN "addMcq"
                                  ELSE "deleteMcq"])
    /\ UNCHANGED <<nav, courseName, selectedTab, retry, runs>>

\* The next item is written, answer being its correct_answer_index.
AddMcqDone(answer) ==
    /\ wf.pc = "addMcq"
    /\ Write(coursesCollection, modulesCollection, topicsCollection,
             assetsCollection
                \cup {McqDoc(nextId, wf.activeTopic.id, wf.j + 1, answer,
                             runs)},
             nextId + 1)
    /\ LET w == [wf EXCEPT !.j = wf.j + 1]
       IN IF w.j < w.data.length
          THEN Continue(w) /\ UNCHANGED selectedTab
          ELSE Finish(w, "none") /\ selectedTab' = "mcqs"
    /\ UNCHANGED <<nav, courseName, retry, runs>>

\* ---------------------------------------------------------- generate-lab
\* The button is on the lab tab of TopicDetailView.
handleGenerateLab ==
    /\ TopicDetailViewShown
    /\ ButtonEnabled(isLoading)
    /\ TopicPrecondition(activeTopic)
    /\ selectedTab' = "lab"
    /\ Begin([Idle EXCEPT !.kind = "lab", !.pc = "genLab",
                          !.activeTopic = activeTopic, !.lab = lab])

\* The lab request returned: validate, then delete the lab of the lab state
\* the handler closed over, if any.
ResumeGenLab ==
    /\ wf.pc = "genLab"
    /\ rt.phase = "returned"
    /\ LET w == [wf EXCEPT !.data = wf.result]
       IN IF w.data.kind = "null" \/ ~w.data.problemStatement
          THEN Finish(w, "AI failed to generate lab instructions.")
          ELSE Continue([w EXCEPT !.pc = IF w.lab # None THEN "deleteLab"
                                         ELSE "addLab"])
    /\ ResetRetry
    /\ UNCHANGED <<store, nav, courseName, selectedTab, listeners, runs>>

DeleteLabDone ==
    /\ wf.pc = "deleteLab"
    /\ Write(coursesCollection, modulesCollection, topicsCollection,
             Without(assetsCollection, wf.lab.id), nextId)
    /\ Continue([wf EXCEPT !.pc = "addLab"])
    /\ UNCHANGED <<nav, courseName, selectedTab, retry, runs>>

\* AddLabDone with the topic on screen when the write settles, not the topic
\* the handler closed over.
AddLabDoneOnScreen ==
    /\ wf.pc = "addLab"
    /\ Write(coursesCollection, modulesCollection, topicsCollection,
             assetsCollection \cup {LabDoc(nextId, activeTopic.id, runs)},
             nextId + 1)
    /\ Finish(wf, "none")
    /\ selectedTab' = "lab"
    /\ UNCHANGED <<nav, courseName, retry, runs>>

AddLabDone ==
    /\ wf.pc = "addLab"
    /\ Write(coursesCollection, modulesCollection, topicsCollection,
             assetsCollection \cup {LabDoc(nextId, wf.activeTopic.id, runs)},
             nextId + 1)
    /\ Finish(wf, "none")
    /\ selectedTab' = "lab"
    /\ UNCHANGED <<nav, courseName, retry, runs>>

\* ------------------------------------------------------------------ next
Navigate ==
    \/ \E value \in CourseNames : handleCourseNameChange(value)
    \/ \E m \in Range(modules) : handleViewModule(m, TRUE)
    \/ handleViewModule(activeModule, FALSE)
    \/ handleViewModulesList
    \/ \E t \in Range(topics) : handleViewTopic(t)

Notify ==
    \/ NotifyCourse
    \/ NotifyModules
    \/ NotifyTopics
    \/ NotifyMcqs
    \/ NotifyLab

Retry ==
    \/ \E value \in Responses(wf.pc) : GenReturn(value)
    \/ \E e \in ApiErrors : GenThrow(e)
    \/ SleepDone
    \/ GenFailed

\* A click on one of the three generate buttons.
Start ==
    \/ handleGenerateCourse
    \/ handleGenerateMCQs
    \/ handleGenerateLab

GenerateCourse ==
    \/ ResumeGenModules
    \/ GetDocsDone
    \/ DeleteCourseDone
    \/ AddCourseDone
    \/ AddModuleDone
    \/ ResumeGenTopics
    \/ AddTopicDone

\* What the service can put in an item's correct_answer_index: the schema
\* asks for a number and the prompt for a 0-indexed integer, and neither is
\* enforced on what JSON.parse returns.
AnswerValues ==
    {Num(0, 1), Num(3, 1), Num(4, 1), Num(0 - 1, 1), Num(3, 2), Str("2"),
     Str("2.5"), Str("two"), Bool(TRUE), JsNull, JsUndefined}

\* The answers of a service that follows the prompt.
IndexAnswers == {Num(1, 1)}

GenerateMCQsWith(answers) ==
    \/ ResumeGenMcqs
    \/ DeleteMcqDone
    \/ \E answer \in answers : AddMcqDone(answer)

GenerateMCQs == GenerateMCQsWith(IndexAnswers)

GenerateLab ==
    \/ ResumeGenLab
    \/ DeleteLabDone
    \/ AddLabDone

\* A session up to the end of its first workflow invocation, the service
\* returning arrays of at most MaxItems items: a second click is possible
\* for as long as the first invocation has not ended.
Next ==
    \/ Navigate
    \/ Notify
    \/ history = <<>> /\ Start
    \/ Retry /\ wf'.result.length <= MaxItems
    \/ StoreFailed
    \/ GenerateCourse
    \/ GenerateMCQs
    \/ GenerateLab

Spec == Init /\ [][Next]_vars

\* A remote call in flight settles, and a sleep ends.
Settle ==
    \/ Retry
    \/ StoreFailed
    \/ GenerateCourse
    \/ GenerateMCQs
    \/ GenerateLab

\* The same sessions, every remote call and every sleep coming to its end.
SpecFair == Init /\ [][Next]_vars /\ WF_vars(Settle)

\* The first generate-course of a session, with the subscriptions it feeds.
NextCourse ==
    \/ NotifyCourse
    \/ NotifyModules
    \/ history = <<>> /\ handleGenerateCourse
    \/ Retry
    \/ StoreFailed
    \/ GenerateCourse

SpecCourse == Init /\ [][NextCourse]_vars

\* The same, the store delivering every snapshot it owes a listener.
SpecCourseFair ==
    /\ Init
    /\ [][NextCourse]_vars
    /\ WF_vars(NotifyCourse)
    /\ WF_vars(NotifyModules)

\* The asset workflows on a generated course, with navigation.
NextAssets ==
    \/ \E m \in Range(modules) : handleViewModule(m, TRUE)
    \/ handleViewModule(activeModule, FALSE)
    \/ handleViewModulesList
    \/ \E t \in Range(topics) : handleViewTopic(t)
    \/ Notify
    \/ Len(history) < MaxRuns
       /\ (handleGenerateMCQs \/ handleGenerateLab)
    \/ Retry
    \/ StoreFailed
    \/ GenerateMCQs
    \/ GenerateLab

SpecAssets == InitSeeded /\ [][NextAssets]_vars

\* The asset workflows on a generated course, with navigation at any time,
\* when the service answers at the first attempt with a result that passes
\* the handler's validation, the store accepts every write, and document
\* ids ascend in insertion order.
NextAssetRuns ==
    \/ \E m \in Range(modules) : handleViewModule(m, TRUE)
    \/ handleViewModule(activeModule, FALSE)
    \/ handleViewModulesList
    \/ \E t \in Range(topics) : handleViewTopic(t)
    \/ Notify
    \/ Len(history) < MaxRuns
       /\ (handleGenerateMCQs \/ handleGenerateLab)
    \/ \E value \in Responses(wf.pc) :
          /\ wf.pc = "genMcqs" => NonEmptyArray(value)
          /\ wf.pc = "genLab" => value = ObjectWith(TRUE)
          /\ GenReturn(value)
    \/ GenerateMCQs
    \/ GenerateLab

InitAscending == InitSeeded /\ idOrder = "asc"

SpecAssetRuns == InitAscending /\ [][NextAssetRuns]_vars

\* The Sync Engine on a store that no longer changes: the user navigates,
\* and the store delivers every snapshot it owes a listener.
NextSync ==
    \/ Navigate
    \/ Notify

SpecSync ==
    /\ Init
    /\ [][NextSync]_vars
    /\ WF_vars(NotifyCourse)
    /\ WF_vars(NotifyModules)
    /\ WF_vars(NotifyTopics)
    /\ WF_vars(NotifyMcqs)
    /\ WF_vars(NotifyLab)

\* A session on a generated course up to the end of its first workflow
\* invocation, as Next, the store ending listeners with an error while the
\* user browses.
NextFaults ==
    \/ Next
    \/ \E name \in ListenerNames : runs = 0 /\ ListenerError(name)

SpecFaults == InitSeeded /\ [][NextFaults]_vars

\* The first generate-assessment on a generated course, with navigation, the
\* service free in what it returns as an item's correct_answer_index.
NextMcqs ==
    \/ \E m \in Range(modules) : handleViewModule(m, TRUE)
    \/ handleViewModule(activeModule, FALSE)
    \/ handleViewModulesList
    \/ \E t \in Range(topics) : handleViewTopic(t)
    \/ Notify
    \/ history = <<>> /\ handleGenerateMCQs
    \/ Retry
    \/ StoreFailed
    \/ GenerateMCQsWith(AnswerValues)

SpecMcqs == InitSeeded /\ [][NextMcqs]_vars

\* ================================================================ claims
\* The documents of one kind that belong to one parent.
McqsOf(topicId) ==
    {a \in assetsCollection : a.topicId = topicId /\ a.type = "mcq"}

LabsOf(topicId) ==
    {a \in assetsCollection : a.topicId = topicId /\ a.type = "lab"}

ModulesOf(courseId) == {m \in modulesCollection : m.courseId = courseId}

TopicsOf(moduleId) == {t \in topicsCollection : t.moduleId = moduleId}

Orders(S) == {d.order : d \in S}

\* The invocations that have ended, and the last of them.
Ended == {history[k] : k \in 1..Len(history)}

LastEnded == history[Len(history)]

\* C1: after generate-assessment has run twice to completion on the same
\* topic, whenever the store's notifications arrived, the topic's mcq assets
\* in the store are exactly those the second run inserted: every one carries
\* the second run's stamp and there are as many as the second result had
\* items.
C1_SecondRunReplacesFirst ==
    (/\ Len(history) = 2
     /\ history[1].kind = "mcq" /\ history[1].ok
     /\ history[2].kind = "mcq" /\ history[2].ok
     /\ history[1].topicId = history[2].topicId)
    => /\ \A a \in McqsOf(history[2].topicId) : a.createdAt = history[2].run
       /\ Cardinality(McqsOf(history[2].topicId)) = history[2].length

\* C2: in every state that follows the completion of a generate-lab run, no
\* topic has more than one lab asset in the store, whenever the lab
\* subscription's notifications arrived.
C2_AtMostOneLabPerTopic ==
    (\E h \in Ended : h.kind = "lab" /\ h.ok)
    => \A t \in topicsCollection : Cardinality(LabsOf(t.id)) <= 1

\* C3: generate-course deletes every course the cleanup step read before it
\* inserts the new one: the store never holds more than one course, holds
\* none when the insert is issued, holds just the new one from the insert
\* on, and after a successful run holds exactly the new course, with status
\* draft.
C3_OneCourse ==
    /\ Cardinality(coursesCollection) <= 1
    /\ wf.pc = "addCourse" => coursesCollection = {}
    /\ wf.pc \in {"addModule", "genTopics", "addTopic"}
       => coursesCollection = {CourseDoc(wf.newCourseId, wf.courseName, runs)}
    /\ \A h \in Ended :
          h.kind = "course" /\ h.ok
          => /\ Cardinality(coursesCollection) = 1
             /\ \A c \in coursesCollection :
                   c.id = h.courseId /\ c.status = "draft"

C3_PriorCourseReplaced ==
    /\ history # <<>>
    /\ LastEnded.kind = "course" /\ LastEnded.ok
    /\ CourseDoc(1, "Java", 0) \notin coursesCollection
    /\ \E c \in coursesCollection : c.id = LastEnded.courseId /\ c.id # 1

\* C4: during and after a generate-course run the modules of the course the
\* run inserted have orders exactly 1..k, k the number inserted so far, each
\* module being the item at that position of the generation result and
\* inserted in that sequence; a successful run over an N-element result
\* leaves exactly N modules, with orders 1..N.
C4_ModuleOrders ==
    /\ wf.kind = "course" /\ wf.newCourseId # NoId
       => LET S == ModulesOf(wf.newCourseId)
          IN /\ Cardinality(S) = IF wf.pc = "addModule" THEN wf.i
                                 ELSE wf.i + 1
             /\ Orders(S) = 1..Cardinality(S)
             /\ \A m \in S : m.title = m.order
             /\ \A a, b \in S : a.order < b.order => a.id < b.id
    /\ \A h \in Ended :
          h.kind = "course" /\ h.courseId # NoId
          => LET S == ModulesOf(h.courseId)
             IN /\ Orders(S) = 1..Cardinality(S)
                /\ \A m \in S : m.title = m.order
                /\ h.ok => Cardinality(S) = h.length

C4_AllModulesInserted ==
    /\ history # <<>>
    /\ LastEnded.kind = "course" /\ LastEnded.ok
    /\ LastEnded.length = MaxModules
    /\ Cardinality(ModulesOf(LastEnded.courseId)) = MaxModules

\* C5: the topics inserted for a module of a generate-course run carry that
\* module's id and have orders exactly 1..M, M the length of the topic
\* result returned for the module (1..j while the module's topic loop has
\* inserted j of them); a module whose topic result was no array has no
\* topics; so no topic inserted for one module carries a sibling's id.  A
\* run that failed leaves each module the first topics of its result.
C5_TopicOrders ==
    /\ wf.kind = "course" /\ wf.newCourseId # NoId
       => /\ \A r \in wf.topicLens :
                LET S == TopicsOf(r.moduleId)
                    n == IF wf.pc = "addTopic" /\ r.moduleId = wf.newModuleId
                         THEN wf.j ELSE r.length
                IN /\ Cardinality(S) = n
                   /\ Orders(S) = 1..n
                   /\ \A t \in S : t.title = t.order
          /\ \A m \in ModulesOf(wf.newCourseId) :
                (\A r \in wf.topicLens : r.moduleId # m.id)
                => TopicsOf(m.id) = {}
    /\ \A h \in Ended :
          h.kind = "course" /\ h.courseId # NoId
          => /\ \A r \in h.topicLens :
                   LET S == TopicsOf(r.moduleId)
                   IN /\ Orders(S) = 1..Cardinality(S)
                      /\ Cardinality(S) <= r.length
                      /\ h.ok => Cardinality(S) = r.length
             /\ \A m \in ModulesOf(h.courseId) :
                   (\A r \in h.topicLens : r.moduleId # m.id)
                   => TopicsOf(m.id) = {}

C5_SiblingModulesWithTopics ==
    /\ history # <<>>
    /\ LastEnded.kind = "course" /\ LastEnded.ok
    /\ \E r1, r2 \in LastEnded.topicLens :
          /\ r1.moduleId # r2.moduleId
          /\ r1.length = MaxTopics
          /\ r2.length > 0
          /\ Cardinality(TopicsOf(r1.moduleId)) = MaxTopics

\* C6: withRetry calls the operation at most maxRetries (5) times; it
\* rethrows only when the maxRetries-th call has failed, the error it
\* rethrows being a failure of the operation; it sleeps only after a failure
\* that was not the last attempt's, so there is no sleep after the final
\* failure and no call after it.
C6_AtMostMaxRetriesCalls ==
    /\ calls <= maxRetries
    /\ Len(sleeps) <= maxRetries - 1
    /\ rt.phase = "call" => Len(sleeps) = calls - 1
    /\ rt.phase = "sleep"
       => calls < maxRetries /\ Len(sleeps) = calls /\ rt.caught \in ApiErrors
    /\ rt.phase = "thrown"
       => /\ calls = maxRetries
          /\ Len(sleeps) = maxRetries - 1
          /\ rt.caught \in ApiErrors

C6_AllAttemptsFailed ==
    /\ rt.phase = "thrown"
    /\ calls = maxRetries
    /\ rt.caught = "API call failed"

\* C7: when the operation fails k times (0 <= k < maxRetries) and then
\* succeeds, withRetry returns the value of the successful call after
\* exactly k + 1 calls, and the sleeps it took are initialDelay * 2^j after
\* the j-th failure, j from 0: 1000, 2000, 4000, 8000 for k = 4.
C7_ReturnsAfterKPlusOneCalls ==
    /\ \A n \in 1..Len(sleeps) : sleeps[n] = initialDelay * 2^(n - 1)
    /\ rt.phase = "returned"
       => /\ calls = Len(sleeps) + 1
          /\ calls = rt.i + 1
          /\ Len(sleeps) < maxRetries
          /\ wf.result \in Responses(wf.pc)
          /\ ~ENABLED (\/ \E value \in Responses(wf.pc) : GenReturn(value)
                       \/ \E e \in ApiErrors : GenThrow(e)
                       \/ SleepDone)

C7_FourFailuresThenSuccess ==
    /\ rt.phase = "returned"
    /\ calls = maxRetries
    /\ sleeps = <<1000, 2000, 4000, 8000>>
    /\ wf.result = ArrayOf(1)

\* C8, as the specification states it: a generation-output error (no text,
\* or text that is not JSON) is not retried, so withRetry never sleeps on
\* one and rethrows it after the single request.
C8_OutputErrorsNotRetried ==
    rt.caught \in OutputErrors => rt.phase = "thrown" /\ calls = 1

\* C8, as the code has it: a generation-output error is retried like every
\* other failure of callGeminiApi: withRetry sleeps and issues the request
\* again unless the failed call was the maxRetries-th, and only then
\* rethrows it to the workflow.
C8_OutputErrorsRetried ==
    rt.caught \in OutputErrors
    => /\ rt.phase \in {"sleep", "thrown"}
       /\ rt.phase = "sleep" <=> calls < maxRetries
       /\ rt.phase = "thrown" <=> calls = maxRetries

C8_SleepsOnOutputError ==
    /\ rt.phase = "sleep"
    /\ rt.caught = "Received invalid JSON response from AI."
    /\ calls = 1

\* The failure the workflow in flight raises where it stands: the error
\* withRetry rethrew, the rejection of a store call, or the validation error
\* of a generation result.
C9_Raised ==
    CASE rt.phase = "thrown" -> rt.caught
      [] wf.pc \in StorePcs -> StoreError
      [] wf.pc = "genModules" -> "AI failed to generate module structure."
      [] wf.pc = "genMcqs" -> "AI failed to generate MCQs."
      [] wf.pc = "genLab" -> "AI failed to generate lab instructions."
      [] OTHER -> "none"

\* C9: the step in which a workflow of any of the three kinds ends with a
\* failure (of a generation request, a validation or a store call) records
\* that failure's message as the error, clears isLoading, and leaves no
\* workflow and no request in flight: the workflow is not started again.
C9_FailureCaught ==
    [][(Len(history') > Len(history) /\ ~history'[Len(history')].ok)
       => /\ error' = C9_Raised
          /\ error' # "null"
          /\ isLoading' = FALSE
          /\ wf' = Idle
          /\ rt' = RtIdle
          /\ runs' = runs
          /\ inFlight' = 0]_vars

C9_LabStoreFailureCaught ==
    /\ history # <<>>
    /\ LastEnded.kind = "lab" /\ ~LastEnded.ok
    /\ error = StoreError
    /\ ~isLoading

\* C10: no two workflows are ever in flight: while one is, isLoading is set,
\* and while isLoading is set no click starts a workflow.
C10_NotReentrant ==
    /\ inFlight <= 1
    /\ inFlight = 1 <=> isLoading
    /\ inFlight = 1 <=> wf # Idle
    /\ isLoading => ~ENABLED Start

C10_BusyOnTopicView ==
    /\ inFlight = 1
    /\ isLoading
    /\ wf.kind = "mcq"
    /\ TopicDetailViewShown

\* The documents the modules and the topics listeners' queries match now.
ModulesMatched ==
    QueryResult("modules", listeners["modules"].key, coursesCollection,
                modulesCollection, topicsCollection, assetsCollection)

TopicsMatched ==
    QueryResult("topics", listeners["topics"].key, coursesCollection,
                modulesCollection, topicsCollection, assetsCollection)

\* slice lists exactly the documents of S, each once, in ascending order.
SortedListOf(slice, S) ==
    /\ Range(slice) = S
    /\ Len(slice) = Cardinality(S)
    /\ \A a, b \in 1..Len(slice) : a < b => slice[a].order < slice[b].order

\* C11: a notification of the modules (of the topics) subscription leaves
\* the local modules (topics) slice holding exactly the documents of the
\* notification's snapshot, none from an earlier one, in ascending order of
\* their order field, whatever the order of the snapshot.
C11_SliceIsSortedSnapshot ==
    [][/\ NotifyModules => SortedListOf(modules', ModulesMatched)
       /\ NotifyTopics => SortedListOf(topics', TopicsMatched)]_vars

C11_ReversedSnapshotSorted ==
    /\ ~listeners["modules"].pending
    /\ Len(modules) = 2
    /\ Snapshot("modules") = <<modules[2], modules[1]>>
    /\ modules[1].order = 1 /\ modules[2].order = 2

\* The active module's id is the id of a document the modules listener's
\* query matches now.
ActiveModuleMatched == \E m \in ModulesMatched : m.id = activeModule.id

\* C12: a modules notification that arrives while an active module is
\* selected and whose snapshot has no document of the active module's id
\* leaves activeModule the object it was: it is neither cleared nor replaced.
C12_StaleActiveModuleKept ==
    [][(NotifyModules /\ activeModule # None /\ ~ActiveModuleMatched)
       => activeModule' = activeModule /\ activeModule' # None]_vars

C12_NotifiedWithoutActiveModule ==
    /\ currentView = "module"
    /\ activeModule # None
    /\ listeners["modules"].active /\ ~listeners["modules"].pending
    /\ ~ActiveModuleMatched
    /\ ModulesMatched # {}

\* C13: a modules notification that arrives while an active module is
\* selected and whose snapshot has a document of the active module's id
\* makes activeModule that document of the snapshot.
C13_ActiveModuleReResolved ==
    [][(NotifyModules /\ activeModule # None /\ ActiveModuleMatched)
       => /\ activeModule' \in ModulesMatched
          /\ activeModule'.id = activeModule.id
          /\ amInList']_vars

C13_ReResolvedOnIdleStore ==
    /\ runs = 0
    /\ currentView = "module"
    /\ activeModule \in ModulesMatched
    /\ amInList
    /\ topics # <<>>
    /\ listeners["topics"].pending

\* C14: a course notification makes the local course the first document of
\* its snapshot, whatever else the snapshot holds, and none when the
\* snapshot is empty; a lab notification does the same to the local lab.
C14_FirstMatch ==
    [][/\ NotifyCourse
          => course' = IF Snapshot("course") = <<>> THEN None
                       ELSE Snapshot("course")[1]
       /\ NotifyLab
          => lab' = IF Snapshot("lab") = <<>> THEN None
                    ELSE Snapshot("lab")[1]]_vars

C14_FirstOfTwoLabs ==
    /\ listeners["lab"].active /\ ~listeners["lab"].pending
    /\ Len(Snapshot("lab")) = 2
    /\ lab = Snapshot("lab")[1]
    /\ lab # Snapshot("lab")[2]

\* The last invocation to end was a generate-course that succeeded.
CourseGenerated ==
    /\ history # <<>>
    /\ LastEnded.kind = "course" /\ LastEnded.ok

\* The local course is the course the last invocation inserted and the
\* local modules slice is that course's modules, in order 1..N.
CourseSynced ==
    /\ history # <<>>
    /\ course \in coursesCollection
    /\ course.id = LastEnded.courseId
    /\ SortedListOf(modules, ModulesOf(LastEnded.courseId))
    /\ Len(modules) = LastEnded.length
    /\ \A n \in 1..Len(modules) : modules[n].order = n

\* C15: once a generate-course run has succeeded, the store delivering
\* every pending notification and nothing else writing or navigating, the
\* local course becomes the course the run inserted and the local modules
\* slice becomes exactly that course's modules in order 1..N.
C15_EventuallySynced == CourseGenerated ~> CourseSynced

C15_SyncedAfterGeneration ==
    /\ CourseGenerated
    /\ CourseSynced
    /\ Len(modules) = MaxModules
    /\ course.id # 1
\* C16: while no topic is active the local mcq slice is empty and the local
\* lab is none, whatever the store's assets become: the writes of a workflow
\* still running for the previous topic do not reach them.
C16_NoTopicNoAssets == activeTopic = None => mcqs = <<>> /\ lab = None

\* The user has left the topic while its generate-lab is still running: the
\* old lab is deleted and the new one is about to be inserted.
C16_LabRunOutlivesTopic ==
    /\ activeTopic = None
    /\ wf.kind = "lab"
    /\ wf.pc = "addLab"
    /\ wf.lab # None
    /\ LabsOf(wf.activeTopic.id) = {}

\* C17: no subscription step and no navigation action changes any of the
\* four collections; a step that changes one is a store operation of a
\* running workflow.
Collections ==
    <<coursesCollection, modulesCollection, topicsCollection,
      assetsCollection>>

C17_SyncNeverWrites ==
    [][/\ (Notify \/ Navigate) => Collections' = Collections
       /\ Collections' # Collections =>
             wf.kind # "none" /\ wf.pc \in StorePcs]_vars

\* Every listener has delivered and the user has walked down to a topic of
\* a store no workflow has touched.
C17_BrowsedUntouchedStore ==
    /\ runs = 0
    /\ currentView = "topic"
    /\ course \in coursesCollection
    /\ activeModule \in modulesCollection
    /\ activeTopic \in topicsCollection
    /\ mcqs # <<>>
    /\ Range(mcqs) = McqsOf(activeTopic.id)
    /\ lab \in assetsCollection

\* C18: a generate-course that fails after it has inserted the new course
\* ends without touching the store: the course and every module and topic
\* written before the failure stay.
CourseRunFails ==
    /\ wf.kind = "course"
    /\ wf.newCourseId # NoId
    /\ GenFailed \/ StoreFailed

C18_NoRollback ==
    [][CourseRunFails =>
          /\ Collections' = Collections
          /\ \E c \in coursesCollection' : c.id = wf.newCourseId]_vars

\* A generate-course has failed with its course, a module and a topic
\* already written, and they are in the store.
C18_PartialCourseLeft ==
    /\ history # <<>>
    /\ LastEnded.kind = "course"
    /\ ~LastEnded.ok
    /\ \E c \in coursesCollection : c.id = LastEnded.courseId
    /\ \E m \in ModulesOf(LastEnded.courseId) : TopicsOf(m.id) # {}

\* C19: the schema a request declares is object-shaped exactly when its
\* system prompt holds the single-object marker and array-shaped otherwise:
\* the lab request declares an object, the module, topic and MCQ requests an
\* array.
Words == {"a", "single", "JSON", "object", "array"}

MaxWords == 4

Texts == UNION {[1..n -> Words] : n \in 0..MaxWords}

RECURSIVE HoldsMarker(_)
\* The text begins with the marker, or what follows its first word holds it.
HoldsMarker(text) ==
    /\ Len(text) >= Len(SingleObjectMarker)
    /\ \/ SubSeq(text, 1, Len(SingleObjectMarker)) = SingleObjectMarker
       \/ HoldsMarker(Tail(text))

SchemaFollowsMarkerOnTexts ==
    \A text \in Texts :
        /\ ResponseSchema(text, TRUE) = "OBJECT" <=> HoldsMarker(text)
        /\ ResponseSchema(text, TRUE) = "ARRAY" <=> ~HoldsMarker(text)

C19_SchemaFollowsMarker ==
    /\ SchemaFollowsMarkerOnTexts
    /\ rt.phase = "call" =>
          /\ rt.schema \in {"OBJECT", "ARRAY"}
          /\ rt.schema = "OBJECT" <=> wf.pc = "genLab"
          /\ rt.schema = "ARRAY"
                <=> wf.pc \in {"genModules", "genTopics", "genMcqs"}
          /\ rt.schema = "OBJECT"
                <=> Includes(SystemPrompt(wf.pc), SingleObjectMarker)

\* A lab request is in flight, retried after a failure.
C19_LabRequestInFlight ==
    /\ wf.pc = "genLab"
    /\ rt.phase = "call"
    /\ calls = 2
    /\ rt.schema = "OBJECT"

\* C20: every mcq asset in the store has a correctIndex that is an integer
\* in 0..3.
IsOptionIndex(x) ==
    x.type = "number" /\ x.d = 1 /\ x.n \in 0..(OptionCount - 1)

C20_CorrectIndexInRange ==
    \A a \in assetsCollection :
        a.type = "mcq" => IsOptionIndex(a.correctIndex)

\* C21: until its first generation request has returned a valid result a
\* workflow writes nothing: no step taken while the workflow is at that
\* request changes a collection, and a request that is given up or whose
\* result fails validation ends the workflow in failure.
FirstGenPcs == {"genModules", "genMcqs", "genLab"}

ValidFirstResult ==
    IF wf.pc = "genLab"
    THEN wf.result.kind = "object" /\ wf.result.problemStatement
    ELSE wf.result.kind = "array" /\ wf.result.length > 0

EndsInFailure == wf' = Idle /\ ~history'[Len(history')].ok

C21_ValidatedBeforeWrites ==
    [][/\ (wf = Idle /\ wf' # Idle) => wf'.pc \in FirstGenPcs
       /\ wf.pc \in FirstGenPcs =>
            /\ Collections' = Collections
            /\ (rt.phase = "thrown" /\ wf' # wf) => EndsInFailure
            /\ (rt.phase = "returned" /\ wf' # wf /\ ~ValidFirstResult)
                  => EndsInFailure
            /\ (rt.phase = "returned" /\ wf' # wf /\ ValidFirstResult)
                  => wf'.pc \in StorePcs]_vars

\* A generate-lab has failed validation and the lab it would have replaced
\* is still in the store.
C21_InvalidLabKeepsOldLab ==
    /\ history # <<>>
    /\ LastEnded.kind = "lab"
    /\ ~LastEnded.ok
    /\ error = "AI failed to generate lab instructions."
    /\ lab # None
    /\ lab \in assetsCollection

\* C22: generate-course deletes the prior course and nothing that belonged
\* to it: no step of the workflow removes a module, a topic or an asset, and
\* the modules of a deleted course stay in the store with a courseId no
\* course has.
Orphans ==
    {m \in modulesCollection :
        \A c \in coursesCollection : c.id # m.courseId}

C22_NoCascade ==
    [][/\ modulesCollection \subseteq modulesCollection'
       /\ topicsCollection \subseteq topicsCollection'
       /\ assetsCollection \subseteq assetsCollection'
       /\ DeleteCourseDone =>
            /\ ModulesOf(Head(wf.docs).id) \subseteq Orphans'
            /\ Orphans \subseteq Orphans']_vars

\* A regeneration has succeeded: the new course is in the store beside the
\* modules, the topics and the assets of the course it replaced.
C22_OrphansAfterRegeneration ==
    /\ CourseGenerated
    /\ \E c \in coursesCollection : c.id = LastEnded.courseId
    /\ \E m \in Orphans :
          \E t \in TopicsOf(m.id) : McqsOf(t.id) # {} /\ LabsOf(t.id) # {}

\* C23: a step taken from inside a cleanup delete loop never ends the
\* workflow: after a delete, failed or not, the workflow is at the next
\* delete of the loop or at the insert that follows the loop.
DeleteLoopPcs == {"deleteCourse", "deleteMcq"}

AfterDeleteLoop(pc) == IF pc = "deleteCourse" THEN "addCourse" ELSE "addMcq"

C23_DeleteFailureDoesNotAbort ==
    [][(wf.pc \in DeleteLoopPcs /\ wf' # wf)
          => wf'.pc \in {wf.pc, AfterDeleteLoop(wf.pc)}]_vars

\* C24: the module loop of generate-course is sequential.  The handler
\* awaits one remote call at a time, a generation request or a store call;
\* the topics of a module are requested when the module's document is in
\* the store; and while the handler is at the insert of a module, or at the
\* request or the inserts of a module's topics, every earlier module of the
\* new course has all the topics the service returned for it.
GenPcs == {"genModules", "genTopics", "genMcqs", "genLab"}

\* The topics module m has been returned: 0 when the result was no array.
TopicsReturnedFor(m) ==
    IF \E tl \in wf.topicLens : tl.moduleId = m.id
    THEN (CHOOSE tl \in wf.topicLens : tl.moduleId = m.id).length
    ELSE 0

C24_ModuleLoopSequential ==
    /\ rt.phase \in {"call", "sleep", "returned", "thrown"}
          <=> wf.pc \in GenPcs
    /\ rt.phase = "idle" <=> wf.pc \in StorePcs \cup {"idle"}
    /\ wf.pc = "genTopics" =>
          \E m \in ModulesOf(wf.newCourseId) :
              m.id = wf.newModuleId /\ m.order = wf.i + 1
    /\ wf.pc \in {"addModule", "genTopics", "addTopic"} =>
          \A m \in ModulesOf(wf.newCourseId) :
              IF wf.pc # "addModule" /\ m.id = wf.newModuleId
              THEN Cardinality(TopicsOf(m.id))
                      = IF wf.pc = "addTopic" THEN wf.j ELSE 0
              ELSE /\ m.order <= wf.i
                   /\ Cardinality(TopicsOf(m.id)) = TopicsReturnedFor(m)

\* The second module is about to be inserted and the first has its topics.
C24_NextModuleAfterTopics ==
    /\ wf.pc = "addModule"
    /\ wf.i = 1
    /\ \E m \in ModulesOf(wf.newCourseId) :
          Cardinality(TopicsOf(m.id)) = MaxTopics

\* C25: the step that starts a workflow sets isLoading, clears the error and
\* issues the first generation request; isLoading is set in every state in
\* which a workflow is in flight and in no other.
C25_BusyFromStartToEnd ==
    /\ [](isLoading <=> wf # Idle)
    /\ [][(wf = Idle /\ wf' # Idle) =>
             /\ isLoading'
             /\ error' = "null"
             /\ wf'.pc \in FirstGenPcs
             /\ rt'.phase = "call"
             /\ calls' = 1]_vars

\* A workflow is in flight that was started while the error of the course
\* listener was showing.
C25_StartedWithErrorShowing ==
    /\ ~listeners["course"].active
    /\ wf # Idle
    /\ isLoading
    /\ error = "null"

\* C26: a workflow in flight comes to its end, isLoading cleared, whatever
\* the remote calls answer, provided each of them answers.
C26_WorkflowTerminates == (wf # Idle) ~> (wf = Idle /\ ~isLoading)

\* A generate-course has ended in failure after all the attempts of a
\* request failed.
C26_EndedAfterLastAttempt ==
    /\ history # <<>>
    /\ LastEnded.kind = "course"
    /\ ~LastEnded.ok
    /\ error \in ApiErrors
    /\ wf = Idle
    /\ ~isLoading

\* C27: an error on one listener leaves every other listener as it was,
\* attached and owed the snapshots it was owed, and changes no local slice.
C27_FaultIsolated ==
    [][\A name \in ListenerNames :
          ListenerError(name) =>
             /\ \A other \in ListenerNames \ {name} :
                   /\ listeners'[other] = listeners[other]
                   /\ Deliverable(other)' = Deliverable(other)
             /\ nav' = nav]_vars

\* The mcq listener of the shown topic has ended with an error, and the lab
\* listener has since delivered the lab a later generate-lab wrote.
C27_LabDeliveredAfterMcqError ==
    /\ TopicDetailViewShown
    /\ activeTopic # None
    /\ ~listeners["mcq"].active
    /\ listeners["lab"].active
    /\ history # <<>>
    /\ LastEnded.kind = "lab"
    /\ LastEnded.ok
    /\ lab \in assetsCollection
    /\ lab.createdAt = LastEnded.run

\* C28: a handler invoked without its precondition does nothing.  A workflow
\* starts only from a state with a course name that is not blank (course)
\* or with an active topic (assessment, lab); and where no workflow is in
\* flight no request is out, isLoading is clear, and (C17) nothing is
\* written.
C28_NoStartWithoutPrecondition ==
    /\ [](wf = Idle => rt.phase = "idle" /\ calls = 0 /\ ~isLoading)
    /\ [][/\ (wf = Idle /\ wf' # Idle) =>
               IF wf'.kind = "course"
               THEN courseName # "" /\ Trim(courseName) # ""
                    /\ wf'.courseName = courseName
               ELSE activeTopic # None /\ wf'.activeTopic = activeTopic
          /\ (wf = Idle /\ wf' = Idle) =>
               Collections' = Collections /\ rt' = rt]_vars

\* The generate button of the modules view can be clicked while the course
\* name is whitespace.
C28_BlankNameOnModulesView ==
    /\ ModulesViewShown
    /\ ButtonEnabled(isLoading)
    /\ courseName = " "
    /\ wf = Idle
    /\ runs = 0
    /\ ENABLED handleGenerateCourse

\* C29: on a store that no longer changes, once the user has stopped
\* navigating the subscriptions come to rest: from some state on no listener
\* is owed a snapshot.
Quiet == \A name \in ListenerNames : ~Deliverable(name)

C29_Quiesces == <>[][~Navigate]_vars => <>[]Quiet


(***************************************************************************)
(* C30: whenever a local course is known, every record of the local        *)
(* modules slice belongs to it (its courseId is the local course's id), so  *)
(* that across a regeneration (old course, none, new course) the previous   *)
(* course's modules are never shown under the new course.                   *)
(***************************************************************************)
C30_ModulesBelongToCourse ==
    course # None =>
        \A k \in 1..Len(modules) : modules[k].courseId = course.id


(***************************************************************************)
(* C31: generate-assessment and generate-lab act only on the topic that    *)
(* was active when the workflow was started, wherever the user navigates   *)
(* while it is in flight: the workflow keeps the topic of its start, every *)
(* asset it inserts carries that topic's id as topicId, and every asset it *)
(* deletes is an asset of that topic.                                      *)
(***************************************************************************)
C31_ActsOnStartTopic ==
    [][/\ (wf = Idle /\ wf' # Idle) => wf'.activeTopic = activeTopic
       /\ (wf # Idle /\ wf' # Idle) => wf'.activeTopic = wf.activeTopic
       /\ \A a \in assetsCollection' \ assetsCollection :
             wf # Idle /\ a.topicId = wf.activeTopic.id
       /\ \A a \in assetsCollection \ assetsCollection' :
             wf # Idle /\ a.topicId = wf.activeTopic.id]_vars

\* A workflow in flight has deleted the assets it closed over and inserted
\* one of its own while the user is on another topic that has assets too.
C31_WritesWhileOnAnotherTopic ==
    /\ wf # Idle
    /\ wf.pc = "addMcq" /\ wf.mcqs # <<>> /\ wf.j > 0
    /\ activeTopic # None
    /\ activeTopic.id # wf.activeTopic.id
    /\ McqsOf(activeTopic.id) \cup LabsOf(activeTopic.id) # {}
    /\ \E a \in McqsOf(wf.activeTopic.id) : a.createdAt = runs
    /\ \A k \in 1..Len(wf.mcqs) : wf.mcqs[k] \notin assetsCollection


(***************************************************************************)
(* C32: in every reachable state, however the navigation actions and the   *)
(* course notifications interleave, a selected active topic implies a      *)
(* selected active module, view 'topic' implies a selected active topic,   *)
(* and view 'module' implies a selected active module.                     *)
(***************************************************************************)
C32_SelectionConsistent ==
    /\ activeTopic # None => activeModule # None
    /\ currentView = "topic" => activeTopic # None
    /\ currentView = "module" => activeModule # None

\* The notification of a regenerated course has arrived while a topic was
\* selected.
C32_NewCourseWhileTopicSelected ==
    /\ activeTopic # None
    /\ activeModule # None
    /\ currentView = "modules"
    /\ course # None
    /\ course.id # activeModule.courseId

====
